---------------------------- MODULE Spec2Model ----------------------------
(***************************************************************************)
(* A model of the status dashboard of src/script.js.  The file holds two   *)
(* variants of the same script: lines 1-353 (summary + worker history,     *)
(* error panel on failure) and lines 355-663 (summary only, mock data on   *)
(* failure, random demo bars and charts).  The variable `variant` says     *)
(* which of the two programs is running.                                   *)
(*                                                                         *)
(* The JavaScript event loop is modelled task by task: every action is one *)
(* run-to-completion task (a timer callback, a click, the continuation of  *)
(* an await).  An await on fetch() followed by an await on                 *)
(* response.json() is one suspension: nothing this script owns changes     *)
(* between the two.                                                        *)
(***************************************************************************)
EXTENDS Integers, Sequences, FiniteSets, TLC

(***************************************************************************)
(* Program constants                                                       *)
(***************************************************************************)
\* CONFIG.uptimeDays
uptimeDays == 90

\* the `minutesDown < 30` threshold of generateUptimeBar
DegradedBelow == 30

(***************************************************************************)
(* Bounds of the model                                                     *)
(***************************************************************************)
\* longest explicit prefix of a dailyMinutesDown array (the rest is a fill)
MaxPrefix == 2

\* dailyMinutesDown lengths are drawn around 0 and around uptimeDays
LenSlack == 2

\* most sites in a summary payload of the classifier specification
MaxSites == 3

\* the pseudo-random streams standing for Math.random() are 0..MaxSeed
MaxSeed == 1

\* most calls of loadStatusData in one run
MaxRefresh == 2

\* most samples in the data array of a history response
MaxSamples == 2

(***************************************************************************)
(* JavaScript values                                                       *)
(***************************************************************************)
\* an entry of a JSON array of numbers: a number, or null
Num(n) == [isNum |-> TRUE, n |-> n]

NullEntry == [isNum |-> FALSE, n |-> 0]

\* minutes-down values around the thresholds (and a negative one, which the
\* data contract excludes but JSON does not)
MinuteVals == {-1, 0, 1, DegradedBelow - 1, DegradedBelow, DegradedBelow + 1}

Entries == {Num(n) : n \in MinuteVals} \cup {NullEntry}

\* site.dailyMinutesDown: absent (undefined), a non-array value, or an array
NoDaily == [kind |-> "absent", arr |-> <<>>]

ScalarDaily == [kind |-> "scalar", arr |-> <<>>]

ArrayDaily(a) == [kind |-> "array", arr |-> a]

\* the array prefix \o (fill repeated), of length len
MkArray(prefix, fill, len) ==
    [i \in 1..len |-> IF i <= Len(prefix) THEN prefix[i] ELSE fill]

Prefixes == UNION {[1..n -> Entries] : n \in 0..MaxPrefix}

DailyLens ==
    (0..LenSlack) \cup ((uptimeDays - LenSlack)..(uptimeDays + LenSlack))

DailyArrays ==
    {MkArray(p, f, l) : p \in Prefixes, f \in Entries, l \in DailyLens}

DailyValues == {NoDaily, ScalarDaily} \cup {ArrayDaily(a) : a \in DailyArrays}

(***************************************************************************)
(* generateUptimeBar, first variant                                        *)
(***************************************************************************)
\* site.dailyMinutesDown[i] || 0, i counted from 0: undefined (past the end),
\* null and 0 are falsy
MinutesDownAt(arr, i) ==
    IF i + 1 <= Len(arr) /\ arr[i + 1].isNum /\ arr[i + 1].n # 0
    THEN arr[i + 1].n
    ELSE 0

DayClass_Le(minutesDown) ==
    IF minutesDown = 0 THEN ""
    ELSE IF minutesDown <= DegradedBelow THEN "degraded"
    ELSE "down"

\* the if / else-if / else of lines 142-151
DayClass(minutesDown) ==
    IF minutesDown = 0 THEN ""
    ELSE IF minutesDown < DegradedBelow THEN "degraded"
    ELSE "down"

\* one <div class="uptime-day ..." title="..."> of the explicit branch
ExplicitCell(arr, i) ==
    LET minutesDown == MinutesDownAt(arr, i)
    IN  [cls   |-> DayClass(minutesDown),
         title |-> IF minutesDown = 0
                   THEN [kind |-> "normal", day |-> i + 1, minutes |-> 0]
                   ELSE [kind |-> "minutes", day |-> i + 1,
                         minutes |-> minutesDown]]

\* one cell of the fallback branch
FallbackCell(i) ==
    [cls   |-> IF i = 0 THEN "" ELSE "no-data",
     title |-> IF i = 0
               THEN [kind |-> "today", day |-> 0, minutes |-> 0]
               ELSE [kind |-> "nodata", day |-> i + 1, minutes |-> 0]]

\* for (let i = lo; i < hi; i++) bars = cell(i) + bars, from bars = '':
\* every iteration puts its cell in front, so the cells of the later
\* iterations come before those of the earlier ones.  (The range is split in
\* halves to keep the evaluation shallow.)
RECURSIVE ExplicitLoop_Append(_, _, _)
ExplicitLoop_Append(arr, lo, hi) ==
    IF hi <= lo THEN <<>>
    ELSE IF hi = lo + 1 THEN <<ExplicitCell(arr, lo)>>
    ELSE LET mid == (lo + hi) \div 2
         IN  ExplicitLoop_Append(arr, lo, mid) \o ExplicitLoop_Append(arr, mid, hi)

RECURSIVE ExplicitLoop(_, _, _)
ExplicitLoop(arr, lo, hi) ==
    IF hi <= lo THEN <<>>
    ELSE IF hi = lo + 1 THEN <<ExplicitCell(arr, lo)>>
    ELSE LET mid == (lo + hi) \div 2
         IN  ExplicitLoop(arr, mid, hi) \o ExplicitLoop(arr, lo, mid)

RECURSIVE FallbackLoop(_, _)
FallbackLoop(lo, hi) ==
    IF hi <= lo THEN <<>>
    ELSE IF hi = lo + 1 THEN <<FallbackCell(lo)>>
    ELSE LET mid == (lo + hi) \div 2
         IN  FallbackLoop(mid, hi) \o FallbackLoop(lo, mid)

GenerateUptimeBar_ArrayLen(s) ==
    IF s.daily.kind = "array"
    THEN ExplicitLoop(s.daily.arr, 0, Len(s.daily.arr))
    ELSE FallbackLoop(0, uptimeDays)

\* generateUptimeBar(site): the sequence of day cells, leftmost first
GenerateUptimeBar(s) ==
    IF s.daily.kind = "array"
    THEN ExplicitLoop(s.daily.arr, 0, uptimeDays)
    ELSE FallbackLoop(0, uptimeDays)

(***************************************************************************)
(* generateUptimeBar, second variant: one Math.random() per cell           *)
(***************************************************************************)
\* Math.random() in thousandths; the values around the two thresholds
RandVals == <<999, 21, 20, 11, 10, 0>>

\* the i-th draw of stream `sd`
RandomAt(sd, i) == RandVals[((sd * (i + 1) + i) % Len(RandVals)) + 1]

\* rand > 0.02 -> '', rand > 0.01 -> 'degraded', else 'down'
RandomClass(rand) ==
    IF rand > 20 THEN ""
    ELSE IF rand > 10 THEN "degraded"
    ELSE "down"

\* one cell of the second variant's bar: the i-th draw decides the class
RandomCell(sd, n, i) ==
    [cls   |-> RandomClass(RandomAt(sd, i)),
     title |-> [kind |-> "day", day |-> n - i, minutes |-> 0]]

\* for (let i = lo; i < hi; i++) bars += cell(i), from bars = '': every
\* iteration puts its cell at the end
RECURSIVE RandomLoop(_, _, _, _)
RandomLoop(sd, n, lo, hi) ==
    IF hi <= lo THEN <<>>
    ELSE IF hi = lo + 1 THEN <<RandomCell(sd, n, lo)>>
    ELSE LET mid == (lo + hi) \div 2
         IN  RandomLoop(sd, n, lo, mid) \o RandomLoop(sd, n, mid, hi)

\* generateUptimeBar() of the second variant
GenerateUptimeBarMock(sd) == RandomLoop(sd, uptimeDays, 0, uptimeDays)

(***************************************************************************)
(* Sites and summary payloads                                              *)
(***************************************************************************)
\* a site name is a sequence of characters; NoName stands for a missing name
NoName == <<"undefined">>

\* String.prototype.toLowerCase on the modelled alphabet
LowerChar(c) ==
    CASE c = "A" -> "a"
      [] c = "W" -> "w"
      [] OTHER -> c

\* /\s/ on the modelled alphabet
IsSpace(c) == c \in {" ", "\t"}

\* name.toLowerCase().replace(/\s+/g, '-'): every run of whitespace becomes
\* one hyphen
RECURSIVE Slugify(_, _, _)
Slugify(name, i, inRun) ==
    IF i > Len(name) THEN <<>>
    ELSE IF IsSpace(name[i])
         THEN (IF inRun THEN <<>> ELSE <<"-">>) \o Slugify(name, i + 1, TRUE)
         ELSE <<LowerChar(name[i])>> \o Slugify(name, i + 1, FALSE)

\* an entry of data.sites: null, or an object whose fields may be missing
\* (slug "" = missing or empty, time 0 = missing or 0, uptime "" = missing)
Site(name, slug, status, uptime, time, daily) ==
    [isNull |-> FALSE, name |-> name, slug |-> slug, status |-> status,
     uptime |-> uptime, time |-> time, daily |-> daily]

NullSite ==
    [isNull |-> TRUE, name |-> NoName, slug |-> <<>>, status |-> "none",
     uptime |-> "", time |-> 0, daily |-> NoDaily]

\* site.status: the two documented values, a third value, and a missing field
Statuses == {"up", "down", "degraded", "none"}

\* the parsed body of summary.json: {sites: [...]}, a bare array, an object
\* without a usable sites array, or null
ObjectData(sites) == [kind |-> "object", sites |-> sites]

ArrayData(sites) == [kind |-> "array", sites |-> sites]

NoSitesData == [kind |-> "nosites", sites |-> <<>>]

NullData == [kind |-> "null", sites |-> <<>>]

(***************************************************************************)
(* updateOverallStatus (both variants: lines 58-75 and 410-427)            *)
(***************************************************************************)
\* sites.every(site => site.status === 'up'): stops at the first false;
\* reading .status of null throws
RECURSIVE EveryUp(_, _)
EveryUp(sites, i) ==
    IF i > Len(sites) THEN "true"
    ELSE IF sites[i].isNull THEN "throw"
    ELSE IF sites[i].status = "up" THEN EveryUp(sites, i + 1)
    ELSE "false"

\* sites.some(site => site.status === 'down'): stops at the first true
RECURSIVE SomeDown(_, _)
SomeDown(sites, i) ==
    IF i > Len(sites) THEN "false"
    ELSE IF sites[i].isNull THEN "throw"
    ELSE IF sites[i].status = "down" THEN "true"
    ELSE SomeDown(sites, i + 1)

\* the three status classes of the banner
BannerClasses == {"operational", "degraded", "outage"}

\* sites.some(site => site.status === 'up')
RECURSIVE SomeUp(_, _)
SomeUp(sites, i) ==
    IF i > Len(sites) THEN "false"
    ELSE IF sites[i].isNull THEN "throw"
    ELSE IF sites[i].status = "up" THEN "true"
    ELSE SomeUp(sites, i + 1)

OverallClass_SomeUp(sites) ==
    LET allUp   == SomeUp(sites, 1)
        anyDown == IF allUp = "throw" THEN "throw" ELSE SomeDown(sites, 1)
    IN  IF "throw" \in {allUp, anyDown} THEN "throw"
        ELSE IF allUp = "true" THEN "operational"
        ELSE IF anyDown = "true" THEN "outage"
        ELSE "degraded"

\* lines 60-74: allUp and anyDown are both computed first (either may throw),
\* then if (allUp) / else if (anyDown) / else picks the class
OverallClass(sites) ==
    LET allUp   == EveryUp(sites, 1)
        anyDown == IF allUp = "throw" THEN "throw" ELSE SomeDown(sites, 1)
    IN  IF "throw" \in {allUp, anyDown} THEN "throw"
        ELSE IF allUp = "true" THEN "operational"
        ELSE IF anyDown = "true" THEN "outage"
        ELSE "degraded"

\* the .status-text of each class
StatusText(cls) ==
    CASE cls = "operational" -> "all systems operational"
      [] cls = "outage"      -> "some services have an incident"
      [] cls = "degraded"    -> "some services are affected"

UpdateOverallStatus_NoRemove(b, data, src) ==
    LET cls == IF data.kind # "object" THEN "throw"
               ELSE OverallClass(data.sites)
    IN  IF cls = "throw"
        THEN [threw |-> TRUE, banner |-> b]
        ELSE [threw  |-> FALSE,
              banner |-> [classes |-> b.classes \cup {cls},
                          text    |-> StatusText(cls),
                          src     |-> src]]

\* updateOverallStatus(data) on banner b: the banner afterwards, or a throw
\* that leaves it as it was (data.sites of an array, of null or of an object
\* without sites cannot be iterated; the banner is touched only after every()
\* and some() have returned).  src names the refresh that made the call.
UpdateOverallStatus(b, data, src) ==
    LET cls == IF data.kind # "object" THEN "throw"
               ELSE OverallClass(data.sites)
    IN  IF cls = "throw"
        THEN [threw |-> TRUE, banner |-> b]
        ELSE [threw  |-> FALSE,
              banner |-> [classes |-> (b.classes \ BannerClasses) \cup {cls},
                          text    |-> StatusText(cls),
                          src     |-> src]]

(***************************************************************************)
(* Configuration tables                                                    *)
(***************************************************************************)
NameWebsite == <<"W", "e", "b", "s", "i", "t", "e">>

NameStreaming == <<"S", "t", "r", "e", "a", "m", "i", "n", "g", " ",
                   "S", "e", "r", "v", "i", "c", "e">>

NameApi == <<"A", "P", "I">>

\* CONFIG.serviceIcons[slug] || link (first variant)
ServiceIcon(slug) ==
    CASE slug = <<"w", "e", "b", "s", "i", "t", "e">> -> "globe"
      [] slug = <<"s", "t", "r", "e", "a", "m", "i", "n", "g", "-",
                  "s", "e", "r", "v", "i", "c", "e">> -> "tv"
      [] slug = <<"a", "p", "i">> -> "bolt"
      [] OTHER -> "link"

\* CONFIG.services (second variant)
ConfigServices ==
    <<[name |-> NameWebsite, icon |-> "globe"],
      [name |-> NameStreaming, icon |-> "tv"]>>

(***************************************************************************)
(* renderServiceCards                                                      *)
(***************************************************************************)
\* parseFloat(site.uptime || '100').toFixed(2) on the modelled uptime strings
ParseFloatToFixed2(uptime) ==
    CASE uptime = ""      -> "100.00"
      [] uptime = "100"   -> "100.00"
      [] uptime = "99.95" -> "99.95"
      [] uptime = "98.5"  -> "98.50"
      [] OTHER            -> "NaN"

\* site.slug || site.name.toLowerCase().replace(/\s+/g, '-') throws a
\* TypeError for a null site and for a site with neither slug nor name
SlugThrows(s) == s.isNull \/ (s.slug = <<>> /\ s.name = NoName)

SlugOf(s) == IF s.slug # <<>> THEN s.slug ELSE Slugify(s.name, 1, FALSE)

\* the card of lines 83-127.  Its uptime bar is generateUptimeBar(site), which
\* reads site.dailyMinutesDown and nothing else: the card keeps that value
\* (daily) and UptimeBar gives the cells.
Card(s, index) ==
    LET isUp == s.status = "up"
    IN  [cls        |-> IF isUp THEN "operational" ELSE "down",
         statusText |-> IF isUp THEN "Hoat dong" ELSE "Gian doan",
         pulse      |-> IF isUp THEN "pulse-up" ELSE "pulse-down",
         icon       |-> ServiceIcon(SlugOf(s)),
         name       |-> s.name,
         uptime     |-> ParseFloatToFixed2(s.uptime),
         time       |-> s.time,
         barId      |-> index,
         daily      |-> s.daily,
         seed       |-> 0]

\* the card of lines 435-473.  Its uptime bar is generateUptimeBar(), drawn
\* from the Math.random() stream sd: the card keeps the stream (seed).
CardMock(s, index, sd) ==
    LET isUp == s.status = "up"
        icon == IF index < Len(ConfigServices)
                THEN ConfigServices[index + 1].icon
                ELSE "link"
    IN  [cls        |-> IF isUp THEN "operational" ELSE "down",
         statusText |-> IF isUp THEN "Hoat dong" ELSE "Gian doan",
         pulse      |-> "",
         icon       |-> icon,
         name       |-> s.name,
         uptime     |-> IF s.uptime = "" THEN "100" ELSE s.uptime,
         time       |-> s.time,
         barId      |-> index,
         daily      |-> NoDaily,
         seed       |-> sd]

\* the cells inside <div class="uptime-bar" id="uptime-bar-N"> of a card
UptimeBar(v, card) ==
    IF v = 1 THEN GenerateUptimeBar(card) ELSE GenerateUptimeBarMock(card.seed)

\* the index (from 1) of the first site whose card cannot be built, or 0
RECURSIVE FirstThrow(_, _, _)
FirstThrow(sites, i, v) ==
    IF i > Len(sites) THEN 0
    ELSE IF (v = 1 /\ SlugThrows(sites[i])) \/ (v = 2 /\ sites[i].isNull)
         THEN i
         ELSE FirstThrow(sites, i + 1, v)

\* renderServiceCards(data): grid.innerHTML = '' and one card appended per
\* site, until a site throws.  sd seeds the random bars of the second variant.
RenderServiceCards(v, sites, sd) ==
    LET k == FirstThrow(sites, 1, v)
        n == IF k = 0 THEN Len(sites) ELSE k - 1
    IN  [threw |-> k # 0,
         cards |-> [i \in 1..n |->
                       IF v = 1 THEN Card(sites[i], i - 1)
                       ELSE CardMock(sites[i], i - 1,
                                     (sd + i - 1) % (MaxSeed + 1))]]

(***************************************************************************)
(* renderCharts                                                            *)
(***************************************************************************)
\* the chart cards of renderCharts: one <canvas id="chart-index"> per site
ChartCards(v, sites) ==
    [i \in 1..Len(sites) |->
        [slot |-> i - 1,
         icon |-> IF v = 1 THEN ServiceIcon(SlugOf(sites[i]))
                  ELSE IF i <= Len(ConfigServices)
                       THEN ConfigServices[i].icon ELSE "link",
         name |-> sites[i].name]]

\* the setTimeout(..., 0) callbacks renderCharts queues, in order: the canvas
\* id, and fetchAndCreateChart's slug and site.time || 300 (first variant)
ChartTimers(v, sites, by) ==
    [i \in 1..Len(sites) |->
        [slot |-> i - 1,
         slug |-> IF v = 1 THEN SlugOf(sites[i]) ELSE sites[i].name,
         time |-> IF v = 1
                  THEN (IF sites[i].time = 0 THEN 300 ELSE sites[i].time)
                  ELSE 0,
         by   |-> by]]

(***************************************************************************)
(* The chart series of fetchAndCreateChart and createResponseTimeChart.    *)
(* Times are whole hours of local time: new Date(t).getHours() is t mod 24 *)
(***************************************************************************)
GetHours(t) == t % 24

\* an element of result.data
Sample(time, responseTime) == [time |-> time, responseTime |-> responseTime]

\* a data point of the chart: a number or null
Point(v) == [isNull |-> FALSE, v |-> v]

NullPoint == [isNull |-> TRUE, v |-> 0]

\* hourlyData[hourKey] after the forEach of lines 215-223 has run over
\* data[k..]: undefined (count 0) or {sum, count}
RECURSIVE HourlyData(_, _, _)
HourlyData(data, hourKey, k) ==
    IF k > Len(data) THEN [sum |-> 0, count |-> 0]
    ELSE LET rest == HourlyData(data, hourKey, k + 1)
         IN  IF GetHours(data[k].time) = hourKey
             THEN [sum   |-> rest.sum + data[k].responseTime,
                   count |-> rest.count + 1]
             ELSE rest

\* Math.round(sum / count), count > 0: the nearest integer, a half goes up
MathRound(sum, count) == (2 * sum + count) \div (2 * count)

HourlyPoint_Zero(h) ==
    IF h.count > 0 THEN Point(MathRound(h.sum, h.count)) ELSE Point(0)

\* lines 229-233: the rounded mean of the hour, or null without a sample
HourlyPoint(h) ==
    IF h.count > 0 THEN Point(MathRound(h.sum, h.count)) ELSE NullPoint

\* lines 226-234: for i = 0..23 the hour (getHours() - 23 + i + 24) % 24
HourlySeries(data, nowT) ==
    LET hour(i) == (GetHours(nowT) - 23 + i + 24) % 24
    IN  [labels |-> [k \in 1..24 |-> hour(k - 1)],
         data   |-> [k \in 1..24 |->
                        HourlyPoint(HourlyData(data, hour(k - 1), 1))]]

\* lines 242-248: for i = 23..0 the hour (getHours() - i + 24) % 24 and the
\* value currentTime
FallbackSeries(currentTime, nowT) ==
    [labels |-> [k \in 1..24 |-> (GetHours(nowT) - (24 - k) + 24) % 24],
     data   |-> [k \in 1..24 |-> Point(currentTime)]]

\* the response of the history endpoint: fetch() rejected, not ok, body not
\* JSON, a body without data ("empty": data is <<>>), or a data array
HistoryResponse(kind, data) == [kind |-> kind, data |-> data]

\* lines 204-248: labels and chartData as handed to new Chart
ChartSeries(response, currentTime, nowT) ==
    IF response.kind = "data" /\ Len(response.data) > 0
    THEN HourlySeries(response.data, nowT)
    ELSE FallbackSeries(currentTime, nowT)

\* lines 530-539 (second variant): for i = 23..0 the hour of now - i hours
\* and Math.floor(Math.random() * 500) + 200
RandomSeries(sd, nowT) ==
    [labels |-> [k \in 1..24 |-> GetHours(nowT - (24 - k))],
     data   |-> [k \in 1..24 |->
                    Point(((RandomAt(sd, k - 1) * 500) \div 1000) + 200)]]

(***************************************************************************)
(* The page and loadStatusData                                             *)
(***************************************************************************)
\* the page as the static markup leaves it: no script has written anything
\* (src is the number of the refresh that wrote an element, 0 for none)
StaticBanner == [classes |-> {}, text |-> "static", src |-> 0]

StaticGrid == [kind |-> "static", cards |-> <<>>, src |-> 0]

StaticCharts == [src |-> 0, cards |-> <<>>]

ShowErrorState_ResetsPage(dom, id) ==
    [dom EXCEPT !.grid = [kind |-> "error", cards |-> <<>>, src |-> id],
                !.banner = StaticBanner,
                !.lastUpdate = id]

\* showErrorState(): the services grid becomes the error panel with the
\* retry button; nothing else is written
ShowErrorState(dom, id) ==
    [dom EXCEPT !.grid = [kind |-> "error", cards |-> <<>>, src |-> id]]

RenderAll_NoClear(v, dom, id, data, sd) ==
    LET r1 == UpdateOverallStatus(dom.banner, data, id)
    IN  IF r1.threw THEN [threw |-> TRUE, dom |-> dom]
        ELSE LET r2 == RenderServiceCards(v, data.sites, sd)
                 d2 == [dom EXCEPT
                          !.banner = r1.banner,
                          !.grid = [kind |-> IF dom.grid.kind = "error"
                                             THEN "error" ELSE "cards",
                                    cards |-> r2.cards, src |-> id]]
             IN  IF r2.threw THEN [threw |-> TRUE, dom |-> d2]
                 ELSE [threw |-> FALSE,
                       dom   |-> [d2 EXCEPT
                          !.chartsGrid = [src |-> id,
                                          cards |-> ChartCards(v, data.sites)],
                          !.timers = @ \o ChartTimers(v, data.sites, id),
                          !.lastUpdate = id]]

\* updateOverallStatus(data); renderServiceCards(data); renderCharts(data);
\* updateLastUpdate(): the page after the last statement that ran, and
\* whether one of them threw.  renderCharts evaluates the same expressions
\* per site as renderServiceCards did, so it cannot throw after it.
RenderAll(v, dom, id, data, sd) ==
    LET r1 == UpdateOverallStatus(dom.banner, data, id)
    IN  IF r1.threw THEN [threw |-> TRUE, dom |-> dom]
        ELSE LET r2 == RenderServiceCards(v, data.sites, sd)
                 d2 == [dom EXCEPT
                          !.banner = r1.banner,
                          !.grid = [kind |-> "cards", cards |-> r2.cards,
                                    src |-> id]]
             IN  IF r2.threw THEN [threw |-> TRUE, dom |-> d2]
                 ELSE [threw |-> FALSE,
                       dom   |-> [d2 EXCEPT
                          !.chartsGrid = [src |-> id,
                                          cards |-> ChartCards(v, data.sites)],
                          !.timers = @ \o ChartTimers(v, data.sites, id),
                          !.lastUpdate = id]]

\* what the summary fetch of a refresh came to: fetch() rejected, the
\* response was not ok, the body did not parse, or the parsed body
Rejected == [kind |-> "reject", data |-> NullData]

NotOk == [kind |-> "nonok", data |-> NullData]

BadJson == [kind |-> "badjson", data |-> NullData]

Parsed(d) == [kind |-> "data", data |-> d]

LoadStatusData_NoCatch(dom, id, result, sd) ==
    IF result.kind # "data"
    THEN [outcome |-> "escaped", dom |-> dom]
    ELSE LET data == IF result.data.kind = "array"
                     THEN ObjectData(result.data.sites)
                     ELSE result.data
             r == RenderAll(1, dom, id, data, sd)
         IN  IF r.threw
             THEN [outcome |-> "escaped", dom |-> r.dom]
             ELSE [outcome |-> "rendered", dom |-> r.dom]

\* loadStatusData of the first variant (lines 30-55), from the point where
\* the awaited fetch settles
LoadStatusData(dom, id, result, sd) ==
    IF result.kind # "data"
    THEN [outcome |-> "error", dom |-> ShowErrorState(dom, id)]
    ELSE LET data == IF result.data.kind = "array"
                     THEN ObjectData(result.data.sites)
                     ELSE result.data
             r == RenderAll(1, dom, id, data, sd)
         IN  IF r.threw
             THEN [outcome |-> "error", dom |-> ShowErrorState(r.dom, id)]
             ELSE [outcome |-> "rendered", dom |-> r.dom]

\* Math.floor(Math.random() * 500) + 200, the draw in thousandths
MockTime(rand) == ((rand * 500) \div 1000) + 200

\* renderMockData(): every configured service 'up', rendered like a payload
RenderMockData(dom, id, sd) ==
    LET mockSummary ==
            ObjectData([i \in 1..Len(ConfigServices) |->
                Site(ConfigServices[i].name, <<>>, "up", "100.00",
                     MockTime(RandomAt(sd, i - 1)), NoDaily)])
    IN  RenderAll(2, dom, id, mockSummary, sd).dom

\* loadStatusData of the second variant (lines 384-407)
LoadStatusDataMock(dom, id, result, sd) ==
    IF result.kind # "data"
    THEN [outcome |-> "mock", dom |-> RenderMockData(dom, id, sd)]
    ELSE LET r == RenderAll(2, dom, id, result.data, sd)
         IN  IF r.threw
             THEN [outcome |-> "mock", dom |-> RenderMockData(r.dom, id, sd)]
             ELSE [outcome |-> "rendered", dom |-> r.dom]

(***************************************************************************)
(* The inputs of the dashboard                                             *)
(***************************************************************************)
SiteWebsiteUp ==
    Site(NameWebsite, <<>>, "up", "99.95", 180,
         ArrayDaily(<<Num(0), Num(15), Num(45), Num(0)>>))

SiteStreamingUp == Site(NameStreaming, <<>>, "up", "100", 0, NoDaily)

SiteStreamingDegraded ==
    Site(NameStreaming, <<>>, "degraded", "98.5", 900, ScalarDaily)

SiteApiDown == Site(NameApi, <<"a", "p", "i">>, "down", "", 0, NoDaily)

SiteAnonymousDown == Site(NoName, <<>>, "down", "", 0, NoDaily)

\* the bodies summary.json is answered with
Payloads ==
    <<ObjectData(<<SiteWebsiteUp, SiteStreamingUp>>),
      ObjectData(<<SiteApiDown>>),
      ArrayData(<<SiteWebsiteUp>>),
      ObjectData(<<SiteWebsiteUp, SiteStreamingDegraded>>),
      ObjectData(<<SiteAnonymousDown>>),
      ObjectData(<<SiteApiDown, NullSite>>),
      ObjectData(<<>>),
      NoSitesData,
      ObjectData(<<SiteWebsiteUp, SiteAnonymousDown>>)>>

SummaryResults ==
    {Rejected, NotOk, BadJson} \cup {Parsed(Payloads[i]) : i \in DOMAIN Payloads}

\* what the history fetch of fetchAndCreateChart came to: rejected, not ok,
\* unparseable, {data: []} or no data field, or a non-empty data array
HistoryResults == {"reject", "nonok", "badjson", "empty", "data"}

\* chart-0 .. chart-(NumSlots-1) are the canvas ids any render can produce
RECURSIVE MaxLen(_, _)
MaxLen(seqs, i) ==
    IF i > Len(seqs) THEN 0
    ELSE LET m == MaxLen(seqs, i + 1)
             l == Len(seqs[i].sites)
         IN  IF l > m THEN l ELSE m

NumSlots ==
    LET m == MaxLen(Payloads, 1)
    IN  IF m > Len(ConfigServices) THEN m ELSE Len(ConfigServices)

Slots == 0..(NumSlots - 1)

RefreshIds == 1..MaxRefresh

Seeds == 0..MaxSeed

(***************************************************************************)
(* State                                                                   *)
(***************************************************************************)
VARIABLES
    variant,         \* 1: lines 1-353, 2: lines 355-663
    timerOn,         \* DOMContentLoaded has run: the setInterval is installed
    started,         \* calls of loadStatusData so far
    load,            \* per call: where it stands and how it ended
    banner,          \* #status-banner
    grid,            \* #services-grid
    chartsGrid,      \* #charts-grid: the canvases in the document
    timers,          \* queued setTimeout(..., 0) callbacks, oldest first
    lastUpdate,      \* #last-update: the refresh that wrote it
    chartsInstances, \* the registry: slot -> chart (0: none)
    charts,          \* every Chart ever constructed, in order
    hist,            \* calls of fetchAndCreateChart awaiting their fetch
    call,            \* pure-function specifications: the call and its stage
    site,            \* ... the site passed to generateUptimeBar
    seed,            \* ... the Math.random() stream
    summary,         \* ... the data passed to updateOverallStatus
    bars,            \* ... the bar generateUptimeBar returned
    now,             \* ... new Date(), in whole hours
    history,         \* ... the response of the history endpoint
    currentTime,     \* ... fetchAndCreateChart's currentTime argument
    series           \* ... the labels and data handed to new Chart

vars ==
    <<variant, timerOn, started, load, banner, grid, chartsGrid, timers,
      lastUpdate, chartsInstances, charts, hist, call, site, seed, summary,
      bars, now, history, currentTime, series>>

dashVars ==
    <<timerOn, started, load, grid, chartsGrid, timers, lastUpdate,
      chartsInstances, charts, hist>>

seriesVars == <<now, history, currentTime, series>>

pureVars == <<call, site, seed, summary, bars, seriesVars>>

NotCalled ==
    [pc |-> "idle", trigger |-> "none", resp |-> "none", payload |-> 0,
     outcome |-> "none"]

\* the page before any script ran, no call of loadStatusData yet
DashInit ==
    /\ timerOn = FALSE
    /\ started = 0
    /\ load = [id \in RefreshIds |-> NotCalled]
    /\ grid = StaticGrid
    /\ chartsGrid = StaticCharts
    /\ timers = <<>>
    /\ lastUpdate = 0
    /\ chartsInstances = [sl \in Slots |-> 0]
    /\ charts = <<>>
    /\ hist = {}

NoSeries == [labels |-> <<>>, data |-> <<>>]

SeriesIdle ==
    /\ now = 0
    /\ history = HistoryResponse("none", <<>>)
    /\ currentTime = 0
    /\ series = NoSeries

PureIdle ==
    /\ call = "none"
    /\ site = NullSite
    /\ seed = 0
    /\ summary = NullData
    /\ bars = <<>>
    /\ SeriesIdle

Init ==
    /\ variant \in {1, 2}
    /\ banner = StaticBanner
    /\ DashInit
    /\ PureIdle

(***************************************************************************)
(* Actions: the triggers of loadStatusData                                 *)
(***************************************************************************)
\* loadStatusData() up to its await: the fetch of summary.json is sent
CallLoadStatusData(trigger) ==
    /\ started < MaxRefresh
    /\ started' = started + 1
    /\ load' = [load EXCEPT ![started + 1] =
                    [pc |-> "fetch", trigger |-> trigger, resp |-> "none",
                     payload |-> 0, outcome |-> "none"]]
    /\ UNCHANGED <<variant, banner, grid, chartsGrid, timers, lastUpdate,
                   chartsInstances, charts, hist, pureVars>>

\* the DOMContentLoaded listener: the first refresh, and the interval timer
DOMContentLoaded ==
    /\ ~timerOn
    /\ timerOn' = TRUE
    /\ CallLoadStatusData("startup")

\* the interval timer fires; nothing looks at a refresh in flight
IntervalTick ==
    /\ timerOn
    /\ UNCHANGED timerOn
    /\ CallLoadStatusData("tick")

\* a click on the retry button of the error panel
RetryClick ==
    /\ grid.kind = "error"
    /\ UNCHANGED timerOn
    /\ CallLoadStatusData("retry")

(***************************************************************************)
(* Actions: the summary fetch settles                                      *)
(***************************************************************************)
PayloadIndex(result) ==
    IF result.kind # "data" THEN 0
    ELSE CHOOSE i \in DOMAIN Payloads : Payloads[i] = result.data

\* the continuation of loadStatusData after its await, to the end
SummarySettles(id, result, sd) ==
    /\ load[id].pc = "fetch"
    /\ LET dom == [banner |-> banner, grid |-> grid,
                   chartsGrid |-> chartsGrid, timers |-> timers,
                   lastUpdate |-> lastUpdate]
           r   == IF variant = 1
                  THEN LoadStatusData(dom, id, result, sd)
                  ELSE LoadStatusDataMock(dom, id, result, sd)
       IN  /\ banner' = r.dom.banner
           /\ grid' = r.dom.grid
           /\ chartsGrid' = r.dom.chartsGrid
           /\ timers' = r.dom.timers
           /\ lastUpdate' = r.dom.lastUpdate
           /\ load' = [load EXCEPT ![id] =
                          [@ EXCEPT !.pc = "done",
                                    !.resp = IF result.kind = "data"
                                             THEN "data" ELSE "failed",
                                    !.payload = PayloadIndex(result),
                                    !.outcome = r.outcome]]
    /\ UNCHANGED <<variant, timerOn, started, chartsInstances, charts, hist,
                   pureVars>>

(***************************************************************************)
(* Actions: the charts                                                     *)
(***************************************************************************)
\* document.getElementById('chart-N'): the canvas of that id in the
\* document, named by the refresh that rendered it, or 0 when there is none
CanvasById(slot) ==
    IF slot < Len(chartsGrid.cards) THEN chartsGrid.src ELSE 0

\* if (chartsInstances[canvasId]) chartsInstances[canvasId].destroy()
DestroyExisting(slot) ==
    IF chartsInstances[slot] # 0
    THEN [charts EXCEPT ![chartsInstances[slot]].destroyed = TRUE]
    ELSE charts

\* new Chart(ctx, ...) on the canvas, stored in chartsInstances[canvasId]
NewChart(cs, slot, canvas, kind, time, sd, by) ==
    Append(cs, [slot |-> slot, canvas |-> canvas, destroyed |-> FALSE,
                kind |-> kind, time |-> time, seed |-> sd, by |-> by])

\* a chart callback finds no canvas of its id and returns
ChartCallbackNoCanvas ==
    /\ timers # <<>>
    /\ CanvasById(Head(timers).slot) = 0
    /\ timers' = Tail(timers)
    /\ UNCHANGED <<variant, timerOn, started, load, banner, grid, chartsGrid,
                   lastUpdate, chartsInstances, charts, hist, pureVars>>

\* fetchAndCreateChart (first variant) up to its await: the registered chart
\* of the slot is destroyed and the history fetch is sent
FetchAndCreateChartCall ==
    /\ variant = 1
    /\ timers # <<>>
    /\ LET t == Head(timers)
       IN  /\ CanvasById(t.slot) # 0
           /\ charts' = DestroyExisting(t.slot)
           /\ hist' = hist \cup {[slot |-> t.slot,
                                  canvas |-> CanvasById(t.slot),
                                  slug |-> t.slug, time |-> t.time,
                                  by |-> t.by]}
    /\ timers' = Tail(timers)
    /\ UNCHANGED <<variant, timerOn, started, load, banner, grid, chartsGrid,
                   lastUpdate, chartsInstances, pureVars>>

\* fetchAndCreateChart after its await: the series is the hourly history or,
\* without one, the fallback; the chart is drawn on the canvas found before
\* the await and registered under the canvas id
HistorySettles(h, result) ==
    /\ h \in hist
    /\ charts' = NewChart(charts, h.slot, h.canvas,
                          IF result = "data" THEN "history" ELSE "fallback",
                          h.time, 0, h.by)
    /\ chartsInstances' = [chartsInstances EXCEPT ![h.slot] = Len(charts) + 1]
    /\ hist' = hist \ {h}
    /\ UNCHANGED <<variant, timerOn, started, load, banner, grid, chartsGrid,
                   timers, lastUpdate, pureVars>>

\* createResponseTimeChart (second variant): destroy, draw and register in
\* one task
CreateResponseTimeChart(sd) ==
    /\ variant = 2
    /\ timers # <<>>
    /\ LET t == Head(timers)
       IN  /\ CanvasById(t.slot) # 0
           /\ charts' = NewChart(DestroyExisting(t.slot), t.slot,
                                 CanvasById(t.slot), "random", 0, sd, t.by)
           /\ chartsInstances' =
                  [chartsInstances EXCEPT ![t.slot] = Len(charts) + 1]
    /\ timers' = Tail(timers)
    /\ UNCHANGED <<variant, timerOn, started, load, banner, grid, chartsGrid,
                   lastUpdate, hist, pureVars>>

Next ==
    \/ DOMContentLoaded
    \/ IntervalTick
    \/ RetryClick
    \/ \E id \in RefreshIds, result \in SummaryResults, sd \in Seeds :
           SummarySettles(id, result, sd)
    \/ ChartCallbackNoCanvas
    \/ FetchAndCreateChartCall
    \/ \E h \in hist, result \in HistoryResults : HistorySettles(h, result)
    \/ \E sd \in Seeds : CreateResponseTimeChart(sd)

Spec == Init /\ [][Next]_vars

\* every fetch of summary.json is eventually answered or fails
FairSpec ==
    /\ Spec
    /\ \A id \in RefreshIds :
           WF_vars(\E result \in SummaryResults, sd \in Seeds :
                       SummarySettles(id, result, sd))

\* the event loop runs every task that is ready (a queued setTimeout(..., 0)
\* callback, a tick of the interval timer); nothing obliges the network to
\* answer a fetch
EventLoopSpec ==
    /\ Spec
    /\ WF_vars(IntervalTick)
    /\ WF_vars(ChartCallbackNoCanvas)
    /\ WF_vars(FetchAndCreateChartCall)
    /\ WF_vars(\E sd \in Seeds : CreateResponseTimeChart(sd))

(***************************************************************************)
(* generateUptimeBar on its own: every site of BarSites, one call          *)
(***************************************************************************)
BarSites ==
    {Site(NameWebsite, <<>>, "down", "", 0, d) : d \in DailyValues}
        \cup {SiteWebsiteUp}

InitBar ==
    /\ variant \in {1, 2}
    /\ banner = StaticBanner
    /\ DashInit
    /\ call = "generateUptimeBar"
    /\ site \in (IF variant = 1 THEN BarSites ELSE {NullSite})
    /\ seed \in (IF variant = 2 THEN Seeds ELSE {0})
    /\ summary = NullData
    /\ bars = <<>>
    /\ SeriesIdle

\* generateUptimeBar(site) returns (first variant)
CallGenerateUptimeBar ==
    /\ variant = 1
    /\ call = "generateUptimeBar"
    /\ bars' = GenerateUptimeBar(site)
    /\ call' = "returned"
    /\ UNCHANGED <<variant, banner, dashVars, site, seed, summary, seriesVars>>

\* generateUptimeBar() returns (second variant)
CallGenerateUptimeBarMock ==
    /\ variant = 2
    /\ call = "generateUptimeBar"
    /\ bars' = GenerateUptimeBarMock(seed)
    /\ call' = "returned"
    /\ UNCHANGED <<variant, banner, dashVars, site, seed, summary, seriesVars>>

NextBar == CallGenerateUptimeBar \/ CallGenerateUptimeBarMock

SpecBar == InitBar /\ [][NextBar]_vars

(***************************************************************************)
(* updateOverallStatus on its own: every site list up to MaxSites, on      *)
(* every banner the page can carry, one call                               *)
(***************************************************************************)
ClassifierSites ==
    {Site(NameWebsite, <<>>, st, "", 0, NoDaily) : st \in Statuses}
        \cup {NullSite}

SiteLists == UNION {[1..n -> ClassifierSites] : n \in 0..MaxSites}

ClassifierInputs ==
    {ObjectData(l) : l \in SiteLists}
        \cup {ArrayData(<<>>), NoSitesData, NullData}

\* the banner before the call: as in the markup (with or without a class of
\* its own), or as an earlier call left it
PriorBanners ==
    {StaticBanner, [classes |-> {"loading"}, text |-> "static", src |-> 0]}
        \cup {[classes |-> {c}, text |-> StatusText(c), src |-> 0] :
                 c \in BannerClasses}

InitClassify ==
    /\ variant \in {1, 2}
    /\ banner \in PriorBanners
    /\ DashInit
    /\ call = "updateOverallStatus"
    /\ site = NullSite
    /\ seed = 0
    /\ summary \in ClassifierInputs
    /\ bars = <<>>
    /\ SeriesIdle

\* updateOverallStatus(summary) returns or throws
CallUpdateOverallStatus ==
    /\ call = "updateOverallStatus"
    /\ LET r == UpdateOverallStatus(banner, summary, 1)
       IN  /\ banner' = r.banner
           /\ call' = IF r.threw THEN "threw" ELSE "returned"
    /\ UNCHANGED <<variant, dashVars, site, seed, summary, bars, seriesVars>>

NextClassify == CallUpdateOverallStatus

SpecClassify == InitClassify /\ [][NextClassify]_vars

(***************************************************************************)
(* The chart series on its own: one call of fetchAndCreateChart (from the  *)
(* point its fetch settles) or of createResponseTimeChart                  *)
(***************************************************************************)
\* now: hours 4, 23 and 0 of a day
Nows == {100, 119, 120}

\* a sample is 0, 1, 23, 24 or 25 whole hours older than now
Ages == {0, 1, 23, 24, 25}

ResponseTimes == {0, 101, 250}

Samples(nowT) == {Sample(nowT - a, rt) : a \in Ages, rt \in ResponseTimes}

HistoryResponses(nowT) ==
    {HistoryResponse(k, <<>>) : k \in HistoryResults \ {"data"}}
        \cup {HistoryResponse("data", d) :
                 d \in UNION {[1..n -> Samples(nowT)] : n \in 1..MaxSamples}}

\* site.time || 300
CurrentTimes == {50, 180, 300}

InitSeries ==
    /\ variant \in {1, 2}
    /\ banner = StaticBanner
    /\ DashInit
    /\ call = "chart"
    /\ site = NullSite
    /\ seed \in (IF variant = 2 THEN Seeds ELSE {0})
    /\ summary = NullData
    /\ bars = <<>>
    /\ now \in Nows
    /\ history \in (IF variant = 1 THEN HistoryResponses(now)
                    ELSE {HistoryResponse("none", <<>>)})
    /\ currentTime \in (IF variant = 1 THEN CurrentTimes ELSE {0})
    /\ series = NoSeries

\* fetchAndCreateChart reaches new Chart (first variant)
CallFetchAndCreateChart ==
    /\ variant = 1
    /\ call = "chart"
    /\ series' = ChartSeries(history, currentTime, now)
    /\ call' = "returned"
    /\ UNCHANGED <<variant, banner, dashVars, site, seed, summary, bars, now,
                   history, currentTime>>

\* createResponseTimeChart reaches new Chart (second variant)
CallCreateResponseTimeChart ==
    /\ variant = 2
    /\ call = "chart"
    /\ series' = RandomSeries(seed, now)
    /\ call' = "returned"
    /\ UNCHANGED <<variant, banner, dashVars, site, seed, summary, bars, now,
                   history, currentTime>>

NextSeries == CallFetchAndCreateChart \/ CallCreateResponseTimeChart

SpecSeries == InitSeries /\ [][NextSeries]_vars

(***************************************************************************)
(* Properties                                                              *)
(***************************************************************************)
\* C1 (as claimed; refuted by both variants): when the summary fetch of a
\* refresh fails, then as that refresh finishes the services grid shows the
\* error panel with the retry button and the banner is not 'operational'.
C1_FailedFetchShowsErrorNotOperational ==
    [][\A id \in RefreshIds :
          (load[id].pc = "fetch" /\ load'[id].pc = "done"
              /\ load'[id].resp = "failed")
          => (grid'.kind = "error" /\ "operational" \notin banner'.classes)]_vars

\* the sites of the summary are a non-empty list of 'up' and 'down'
BinaryNonEmpty(d) ==
    /\ d.kind = "object"
    /\ Len(d.sites) > 0
    /\ \A i \in DOMAIN d.sites :
           ~d.sites[i].isNull /\ d.sites[i].status \in {"up", "down"}

\* C2: for every non-empty list of sites each 'up' or 'down',
\* updateOverallStatus returns, leaving the banner with exactly one status
\* class: operational exactly when every status is 'up', outage exactly when
\* some status is 'down', and never degraded.
C2_BinaryClassification ==
    (call # "updateOverallStatus" /\ BinaryNonEmpty(summary)) =>
        LET cls     == banner.classes \cap BannerClasses
            allUp   == \A i \in DOMAIN summary.sites :
                           summary.sites[i].status = "up"
            anyDown == \E i \in DOMAIN summary.sites :
                           summary.sites[i].status = "down"
        IN  /\ call = "returned"
            /\ Cardinality(cls) = 1
            /\ cls = {"operational"} <=> allUp
            /\ cls = {"outage"} <=> anyDown
            /\ "degraded" \notin cls

\* C2 witness: a call on three sites, one of them down after an up one, on a
\* banner that was degraded, has returned with the outage banner.
C2_Witness ==
    /\ call = "returned"
    /\ BinaryNonEmpty(summary)
    /\ Len(summary.sites) = MaxSites
    /\ summary.sites[1].status = "up"
    /\ summary.sites[2].status = "down"
    /\ banner.classes = {"outage"}
    /\ banner.text = StatusText("outage")

\* C3 (as claimed; refuted): at no time are two calls of loadStatusData
\* awaiting their summary fetch together.
C3_RefreshesSerialized ==
    Cardinality({id \in RefreshIds : load[id].pc = "fetch"}) <= 1

\* C4: every call of loadStatusData whose fetch is pending eventually ends;
\* it ends in a render of its payload (cards and last-update written by it),
\* in the error panel, or in the mock render, never by an exception leaving
\* it; and the interval timer, once installed, stays installed and starts a
\* refresh whenever it fires.
C4_SchedulerNeverStops ==
    /\ \A id \in RefreshIds :
           (load[id].pc = "fetch") ~> (load[id].pc = "done")
    /\ [][\A id \in RefreshIds :
             (load[id].pc = "fetch" /\ load'[id].pc = "done") =>
                 /\ load'[id].outcome \in {"rendered", "error", "mock"}
                 /\ grid'.src = id
                 /\ load'[id].outcome = "error" <=> grid'.kind = "error"
                 /\ load'[id].outcome # "error" =>
                        grid'.kind = "cards" /\ lastUpdate' = id]_vars
    /\ [][timerOn => timerOn']_vars
    /\ []((timerOn /\ started < MaxRefresh) => ENABLED IntervalTick)

\* C4 witness: the first refresh ended in failure, and the refresh a later
\* tick of the timer started has run the whole pipeline and rendered.
C4_Witness ==
    /\ MaxRefresh >= 2
    /\ load[1].pc = "done"
    /\ load[1].outcome \in {"error", "mock"}
    /\ load[2].trigger = "tick"
    /\ load[2].pc = "done"
    /\ load[2].outcome = "rendered"
    /\ lastUpdate = 2

\* C5 (as claimed; refuted by the first variant): every chart ever
\* constructed is the one registered for its slot or has been destroyed.
\* (Charts drawn on a canvas that carries another chart are left aside:
\* whether Chart.js accepts a second chart on a canvas depends on its
\* version, and the leak does not need one.)
C5_NoChartLeaked ==
    \A c \in DOMAIN charts :
        \/ charts[c].destroyed
        \/ chartsInstances[charts[c].slot] = c
        \/ \E d \in DOMAIN charts :
               d # c /\ charts[d].canvas = charts[c].canvas
                     /\ charts[d].slot = charts[c].slot

\* C6 (as claimed; refuted by the first variant): the banner is never one
\* computed by the refresh whose error panel is shown, and cards are only
\* shown with the banner and the charts of the same refresh.
C6_RenderIsAtomic ==
    /\ grid.kind = "error" => banner.src # grid.src
    /\ grid.kind = "cards" =>
           banner.src = grid.src /\ chartsGrid.src = grid.src

\* the site with its dailyMinutesDown cut to its first uptimeDays entries
Truncated(s) ==
    [s EXCEPT !.daily.arr =
        IF Len(@) > uptimeDays THEN SubSeq(@, 1, uptimeDays) ELSE @]

\* C7: whatever dailyMinutesDown is (absent, not an array, empty, shorter
\* than, equal to or longer than uptimeDays), and in the second variant too,
\* generateUptimeBar returns exactly uptimeDays cells, each for one of the
\* days 1..uptimeDays; the entries of a longer array from index uptimeDays
\* on change nothing.
C7_ExactlyUptimeDaysCells ==
    call = "returned" =>
        /\ Len(bars) = uptimeDays
        /\ variant = 1 =>
               /\ \A p \in DOMAIN bars :
                      bars[p].title.day \in
                          (IF bars[p].title.kind = "today" THEN {0}
                           ELSE 1..uptimeDays)
               /\ bars = GenerateUptimeBar(Truncated(site))

\* C7 witness: a bar was returned for an array one entry longer than
\* uptimeDays whose last entry is an outage.
C7_Witness ==
    /\ call = "returned"
    /\ variant = 1
    /\ site.daily.kind = "array"
    /\ Len(site.daily.arr) = uptimeDays + 1
    /\ site.daily.arr[uptimeDays + 1] = Num(DegradedBelow + 1)
    /\ Len(bars) = uptimeDays

\* the cell of the explicit branch for day index i (from 0): the one whose
\* tooltip names day i + 1
CellsOfDay(i) == {p \in DOMAIN bars : bars[p].title.day = i + 1}

\* C8: in the explicit per-day mode every day with a numeric entry m >= 0
\* has exactly one cell, of class '' (operational) when m = 0, 'degraded'
\* when 0 < m < 30 and 'down' when m >= 30.
C8_SeverityBoundaries ==
    (call = "returned" /\ variant = 1 /\ site.daily.kind = "array") =>
        \A i \in 0..(uptimeDays - 1) :
            (i + 1 <= Len(site.daily.arr) /\ site.daily.arr[i + 1].isNum
                /\ site.daily.arr[i + 1].n >= 0) =>
                LET m == site.daily.arr[i + 1].n
                IN  /\ Cardinality(CellsOfDay(i)) = 1
                    /\ \A p \in CellsOfDay(i) :
                           /\ m = 0 => bars[p].cls = ""
                           /\ (0 < m /\ m < 30) => bars[p].cls = "degraded"
                           /\ m >= 30 => bars[p].cls = "down"

\* C8 witness: a bar was returned for an array that starts 29, 30: the cell
\* of day 1 is degraded and the cell of day 2 is down.
C8_Witness ==
    /\ call = "returned"
    /\ variant = 1
    /\ site.daily.kind = "array"
    /\ Len(site.daily.arr) >= 2
    /\ site.daily.arr[1] = Num(29)
    /\ site.daily.arr[2] = Num(30)
    /\ \A p \in CellsOfDay(0) : bars[p].cls = "degraded"
    /\ \A p \in CellsOfDay(1) : bars[p].cls = "down"

\* C9 (as claimed; refuted): in the explicit mode every day without an entry
\* (past the end of the array, or a null entry) is a 'no-data' cell.
C9_MissingDaysAreNoData ==
    (call = "returned" /\ variant = 1 /\ site.daily.kind = "array") =>
        \A i \in 0..(uptimeDays - 1) :
            (i + 1 > Len(site.daily.arr) \/ ~site.daily.arr[i + 1].isNum) =>
                \A p \in CellsOfDay(i) : bars[p].cls = "no-data"

\* C10 (as claimed; refuted by both variants): with no per-day data (no
\* dailyMinutesDown array; the second variant reads none at all) every cell,
\* today's included, is a 'no-data' cell.
C10_NoDataMeansNoDataCells ==
    (call = "returned" /\ (variant = 2 \/ site.daily.kind # "array")) =>
        \A p \in DOMAIN bars : bars[p].cls = "no-data"

\* the class the thresholds give to an entry of the array
ClassOfEntry(e) ==
    IF ~e.isNum \/ e.n = 0 THEN ""
    ELSE IF e.n < 30 THEN "degraded"
    ELSE "down"

\* C11: in the explicit mode the cell at position p from the left (from 0) is
\* the cell of day index uptimeDays-1-p: its tooltip names that day and its
\* class is the classification of dailyMinutesDown[uptimeDays-1-p]; so the
\* rightmost cell is day 0, and [0, 15, 45, 0, ...] gives, from the right,
\* operational, degraded, down, operational.
C11_OldestToNewest ==
    (call = "returned" /\ variant = 1 /\ site.daily.kind = "array") =>
        /\ Len(bars) = uptimeDays
        /\ \A p \in 0..(uptimeDays - 1) :
               LET i == uptimeDays - 1 - p
               IN  /\ bars[p + 1].title.day = i + 1
                   /\ i + 1 <= Len(site.daily.arr) =>
                          bars[p + 1].cls = ClassOfEntry(site.daily.arr[i + 1])
        /\ (Len(site.daily.arr) >= 4
               /\ SubSeq(site.daily.arr, 1, 4) = <<Num(0), Num(15), Num(45), Num(0)>>)
           => <<bars[uptimeDays].cls, bars[uptimeDays - 1].cls,
                bars[uptimeDays - 2].cls, bars[uptimeDays - 3].cls>>
                  = <<"", "degraded", "down", "">>

\* C11 witness: the bar of dailyMinutesDown = [0, 15, 45, 0] was returned; its
\* last three cells but one are down and degraded, the last is operational.
C11_Witness ==
    /\ call = "returned"
    /\ variant = 1
    /\ site.daily = ArrayDaily(<<Num(0), Num(15), Num(45), Num(0)>>)
    /\ bars[uptimeDays].cls = ""
    /\ bars[uptimeDays - 1].cls = "degraded"
    /\ bars[uptimeDays - 2].cls = "down"
    /\ bars[1].title.day = uptimeDays

\* the samples of the history response that fall in hour-of-day `hour`
SamplesOfHour(hour) ==
    {k \in DOMAIN history.data : history.data[k].time % 24 = hour}

\* the sum of the response times of the samples S
RECURSIVE TotalResponseTime(_)
TotalResponseTime(S) ==
    IF S = {} THEN 0
    ELSE LET k == CHOOSE x \in S : TRUE
         IN  history.data[k].responseTime + TotalResponseTime(S \ {k})

\* v is a nearest integer of total / n
NearestInteger(v, total, n) ==
    /\ 2 * total - n <= 2 * v * n
    /\ 2 * v * n <= 2 * total + n

\* C12: for a non-empty data array the series has exactly 24 labels and 24
\* points; point i stands for hour-of-day (currentHour - 23 + i) mod 24, is
\* null exactly when no sample falls in that hour-of-day, and is otherwise
\* the mean response time of the samples of that hour-of-day rounded to the
\* nearest integer.
C12_HourlyMeans ==
    (call = "returned" /\ variant = 1 /\ history.kind = "data"
        /\ Len(history.data) > 0) =>
        /\ Len(series.labels) = 24
        /\ Len(series.data) = 24
        /\ \A i \in 0..23 :
               LET hour == ((now % 24) - 23 + i + 48) % 24
                   S    == SamplesOfHour(hour)
                   p    == series.data[i + 1]
               IN  /\ series.labels[i + 1] = hour
                   /\ p.isNull <=> S = {}
                   /\ S # {} =>
                          NearestInteger(p.v, TotalResponseTime(S),
                                         Cardinality(S))

\* C12 witness: two samples of the current hour, 101 ms and 250 ms, and
\* nothing an hour earlier: the last point is 176 and the one before is null.
C12_Witness ==
    /\ call = "returned"
    /\ variant = 1
    /\ history = HistoryResponse("data", <<Sample(now, 101), Sample(now, 250)>>)
    /\ series.data[24] = Point(176)
    /\ series.data[23] = NullPoint
    /\ series.labels[24] = now % 24

\* the samples of hour-of-day `hour` that are at most 24 hours old
RecentSamplesOfHour(hour) ==
    {k \in SamplesOfHour(hour) : history.data[k].time >= now - 24}

\* C13 (as claimed; refuted): a sample more than 24 hours older than now
\* enters no point: every point is null exactly when no sample of the last
\* 24 hours falls in its hour, and is otherwise the rounded mean of those.
C13_TrailingWindowOnly ==
    (call = "returned" /\ variant = 1 /\ history.kind = "data"
        /\ Len(history.data) > 0) =>
        \A i \in 0..23 :
            LET hour == ((now % 24) - 23 + i + 48) % 24
                S    == RecentSamplesOfHour(hour)
                p    == series.data[i + 1]
            IN  /\ p.isNull <=> S = {}
                /\ S # {} => NearestInteger(p.v, TotalResponseTime(S),
                                            Cardinality(S))

\* round(100 * sin(i / 4)) for i = 0..23
Sin100 ==
    <<0, 25, 48, 68, 84, 95, 100, 98, 91, 78, 60, 38,
      14, -11, -35, -57, -76, -89, -98, -100, -96, -86, -71, -51>>

\* C19 (as claimed; refuted): without a historical series the chart has 24
\* points and point i is max(100, baseline + 100 sin(i/4)) rounded, the
\* baseline being the current response time handed to fetchAndCreateChart.
C19_SyntheticSineSeries ==
    (call = "returned" /\ variant = 1
        /\ (history.kind # "data" \/ Len(history.data) = 0)) =>
        /\ Len(series.data) = 24
        /\ \A i \in 0..23 :
               LET v == currentTime + Sin100[i + 1]
               IN  series.data[i + 1] = Point(IF v > 100 THEN v ELSE 100)

\* refresh id finishes in this step
Settles(id) == load[id].pc = "fetch" /\ load'[id].pc = "done"

\* the body refresh id was answered with (after it finished with a body)
PayloadOf(id) == Payloads[load[id].payload]

\* the page as loadStatusData sees it
Dom ==
    [banner |-> banner, grid |-> grid, chartsGrid |-> chartsGrid,
     timers |-> timers, lastUpdate |-> lastUpdate]

\* the uptime-day classes of every card of a grid
BarClasses(g) ==
    [i \in DOMAIN g.cards |->
        LET bar == UptimeBar(variant, g.cards[i])
        IN  [p \in DOMAIN bar |-> bar[p].cls]]

\* the labels and points a constructed chart was given, at a fixed time and
\* for a fixed history response
ChartOutput(c) ==
    IF c.kind = "random" THEN RandomSeries(c.seed, 100)
    ELSE IF c.kind = "fallback" THEN FallbackSeries(c.time, 100)
    ELSE HourlySeries(<<Sample(100, 250)>>, 100)

\* C14 (as claimed; refuted by the second variant): a refresh that renders
\* the payload the page already shows leaves the banner state, the cards and
\* the classes of their uptime-day cells as they are; and two charts drawn
\* for the same slot from the same payload and the same kind of history
\* response have the same labels and points.
C14_RenderIsIdempotent ==
    /\ [][\A id \in RefreshIds :
             (Settles(id) /\ load'[id].outcome = "rendered"
                 /\ grid.kind = "cards" /\ grid.src # 0
                 /\ load[grid.src].outcome = "rendered"
                 /\ load[grid.src].payload = load'[id].payload)
             => /\ banner'.classes = banner.classes
                /\ banner'.text = banner.text
                /\ Len(grid'.cards) = Len(grid.cards)
                /\ \A i \in DOMAIN grid.cards :
                       [grid'.cards[i] EXCEPT !.seed = 0]
                           = [grid.cards[i] EXCEPT !.seed = 0]
                /\ BarClasses(grid') = BarClasses(grid)]_vars
    /\ [](\A c, d \in DOMAIN charts :
             (/\ charts[c].slot = charts[d].slot
              /\ charts[c].kind = charts[d].kind
              /\ load[charts[c].by].outcome = "rendered"
              /\ load[charts[d].by].outcome = "rendered"
              /\ load[charts[c].by].payload = load[charts[d].by].payload)
             => ChartOutput(charts[c]) = ChartOutput(charts[d]))

\* C15 (as claimed; refuted by the second variant): a refresh answered with
\* a bare array ends as it would have ended on {sites: that array}: the same
\* outcome (no error panel or mock render the wrapped payload would not
\* give), banner, cards, chart cards and chart callbacks.
C15_BareArrayAccepted ==
    [][\A id \in RefreshIds :
          (Settles(id) /\ load'[id].payload # 0
              /\ Payloads[load'[id].payload].kind = "array")
          => \E sd \in Seeds :
                 LET wrapped ==
                         Parsed(ObjectData(Payloads[load'[id].payload].sites))
                     r == IF variant = 1
                          THEN LoadStatusData(Dom, id, wrapped, sd)
                          ELSE LoadStatusDataMock(Dom, id, wrapped, sd)
                 IN  /\ load'[id].outcome = r.outcome
                     /\ banner' = r.dom.banner
                     /\ grid' = r.dom.grid
                     /\ chartsGrid' = r.dom.chartsGrid
                     /\ timers' = r.dom.timers]_vars

\* C16 (as claimed; refuted by the first variant): a refresh answered with
\* {sites: [...]} whose entries are objects, whatever fields they lack, is
\* rendered: no error panel, one card per site carrying that site's name and
\* status, the banner computed from this payload; and a history fetch that
\* settles, in whatever way, gives its slot a chart and touches neither the
\* other slots nor the banner nor the cards.
C16_PartialFailureStaysLocal ==
    [][/\ \A id \in RefreshIds :
             (Settles(id) /\ load'[id].payload # 0
                 /\ Payloads[load'[id].payload].kind = "object"
                 /\ \A i \in DOMAIN Payloads[load'[id].payload].sites :
                        ~Payloads[load'[id].payload].sites[i].isNull)
             => LET sites == Payloads[load'[id].payload].sites
                IN  /\ load'[id].outcome = "rendered"
                    /\ grid'.kind = "cards"
                    /\ banner'.src = id
                    /\ Len(grid'.cards) = Len(sites)
                    /\ \A i \in DOMAIN grid'.cards :
                           /\ grid'.cards[i].name = sites[i].name
                           /\ grid'.cards[i].cls = "operational"
                                  <=> sites[i].status = "up"
       /\ \A h \in hist :
             h \notin hist' =>
                 /\ Len(charts') = Len(charts) + 1
                 /\ chartsInstances'[h.slot] = Len(charts')
                 /\ \A sl \in Slots \ {h.slot} :
                        chartsInstances'[sl] = chartsInstances[sl]
                 /\ banner' = banner
                 /\ grid' = grid]_vars

\* a fetch of history for slot sl, sent by a callback of refresh id, is
\* awaiting its answer
HistoryPending(sl, id) == \E h \in hist : h.slot = sl /\ h.by = id

\* C17 (as claimed; refuted): every pending fetch, of the summary or of a
\* history, comes to an end, whether or not the network answers: the call
\* that awaits it finishes.
C17_EveryFetchBounded ==
    /\ \A id \in RefreshIds :
           (load[id].pc = "fetch") ~> (load[id].pc = "done")
    /\ \A sl \in Slots, id \in RefreshIds :
           HistoryPending(sl, id) ~> ~HistoryPending(sl, id)

\* C18 (as claimed; refuted): a refresh answered with a summary of zero
\* sites does not reach updateOverallStatus: the banner is not written by
\* it, so no banner, the operational one least of all, comes from it.
C18_EmptySummaryNeverClassified ==
    [][\A id \in RefreshIds :
          (Settles(id) /\ load'[id].payload # 0
              /\ Payloads[load'[id].payload].kind \in {"object", "array"}
              /\ Len(Payloads[load'[id].payload].sites) = 0)
          => /\ banner'.src # id
             /\ ~(banner'.src = id /\ "operational" \in banner'.classes)]_vars

\* every fetch has been answered and every queued callback has run
Quiescent ==
    /\ started >= 1
    /\ \A id \in RefreshIds : load[id].pc # "fetch"
    /\ timers = <<>>
    /\ hist = {}

\* the sites the page shows for a finished refresh: those of its payload, or
\* the configured services after a mock render
ShownSites(id) ==
    IF load[id].outcome = "mock"
    THEN [i \in DOMAIN ConfigServices |->
             Site(ConfigServices[i].name, <<>>, "up", "100.00", 0, NoDaily)]
    ELSE PayloadOf(id).sites

\* C20 (as claimed; refuted): once nothing is pending, the page shows the
\* refresh that was started last: its error panel, or the banner class and
\* the cards of its sites and, for every canvas in the page, a registered
\* live chart drawn on that canvas (not on one that has left the page) with
\* the response time of that refresh's site.
C20_LatestRefreshWins ==
    Quiescent =>
        /\ load[started].outcome = "error" <=> grid.kind = "error"
        /\ load[started].outcome # "error" =>
               LET sites == ShownSites(started)
               IN  /\ banner.classes \cap BannerClasses = {OverallClass(sites)}
                   /\ Len(grid.cards) = Len(sites)
                   /\ \A i \in DOMAIN grid.cards :
                          /\ grid.cards[i].name = sites[i].name
                          /\ grid.cards[i].cls = "operational"
                                 <=> sites[i].status = "up"
                   /\ Len(chartsGrid.cards) = Len(sites)
                   /\ \A sl \in Slots :
                          sl < Len(chartsGrid.cards) =>
                              LET c == chartsInstances[sl]
                              IN  /\ c # 0
                                  /\ ~charts[c].destroyed
                                  /\ charts[c].canvas = chartsGrid.src
                                  /\ variant = 1 =>
                                         charts[c].time =
                                             ChartTimers(1, sites, started)[sl + 1].time

\* C21: in the first variant a refresh whose summary fetch fails changes the
\* services grid (to the error panel) and nothing else: banner, charts grid,
\* queued chart callbacks, chartsInstances, the charts and last-update stay
\* as they were; and last-update changes only in the step of a refresh that
\* ran the three renderers to the end, which then wrote all of them.
C21_FailedRefreshTouchesOnlyGrid ==
    [][variant = 1 =>
          /\ \A id \in RefreshIds :
                 (Settles(id) /\ load'[id].resp = "failed") =>
                     /\ grid' = [kind |-> "error", cards |-> <<>>, src |-> id]
                     /\ banner' = banner
                     /\ chartsGrid' = chartsGrid
                     /\ timers' = timers
                     /\ chartsInstances' = chartsInstances
                     /\ charts' = charts
                     /\ lastUpdate' = lastUpdate
          /\ lastUpdate' # lastUpdate =>
                 \E id \in RefreshIds :
                     /\ Settles(id)
                     /\ load'[id].outcome = "rendered"
                     /\ lastUpdate' = id
                     /\ banner'.src = id
                     /\ grid'.src = id
                     /\ grid'.kind = "cards"
                     /\ chartsGrid'.src = id]_vars

\* C21 witness: the first refresh rendered an all-up payload, the second
\* failed at its fetch: the error panel of the second is shown under the
\* banner and the last-update of the first.
C21_Witness ==
    /\ variant = 1
    /\ load[1].outcome = "rendered"
    /\ load[2].pc = "done"
    /\ load[2].resp = "failed"
    /\ grid = [kind |-> "error", cards |-> <<>>, src |-> 2]
    /\ banner.src = 1
    /\ banner.classes = {"operational"}
    /\ chartsGrid.src = 1
    /\ lastUpdate = 1

\* C22: as a refresh finishes with a render (of its payload or of the mock
\* data) the banner carries exactly one of operational, degraded, outage,
\* whatever the earlier refreshes left; it is operational exactly when every
\* card of the grid is operational; and a card reads 'Gian doan' only under
\* a banner that is not operational.
C22_BannerAgreesWithCards ==
    [][\A id \in RefreshIds :
          (Settles(id) /\ load'[id].outcome \in {"rendered", "mock"}) =>
              /\ Cardinality(banner'.classes \cap BannerClasses) = 1
              /\ "operational" \in banner'.classes
                     <=> \A i \in DOMAIN grid'.cards :
                             grid'.cards[i].cls = "operational"
              /\ \A i \in DOMAIN grid'.cards :
                     grid'.cards[i].statusText = "Gian doan"
                         => "operational" \notin banner'.classes]_vars

\* C22 witness: after a refresh that rendered an all-up payload, a refresh
\* has rendered a payload with an up and a 'degraded' site: the banner is
\* degraded only, over one operational and one down card.
C22_Witness ==
    /\ load[1].outcome = "rendered"
    /\ PayloadOf(1) = ObjectData(<<SiteWebsiteUp, SiteStreamingUp>>)
    /\ load[2].outcome = "rendered"
    /\ PayloadOf(2) = ObjectData(<<SiteWebsiteUp, SiteStreamingDegraded>>)
    /\ banner.src = 2
    /\ banner.classes = {"degraded"}
    /\ grid.src = 2
    /\ Len(grid.cards) = 2
    /\ grid.cards[1].cls = "operational"
    /\ grid.cards[2].statusText = "Gian doan"

\* a summary {sites: [...]} whose entries are objects with a name
WellFormed(d) ==
    /\ d.kind = "object"
    /\ \A i \in DOMAIN d.sites :
           ~d.sites[i].isNull /\ d.sites[i].name # NoName

\* C23: when the error panel is shown and a refresh is answered with a
\* well-formed summary, then as that refresh finishes the error panel is
\* gone, the grid holds one card per site in payload order (uptime-bar-k on
\* card k), and the charts grid holds one canvas chart-k per site, chart-k
\* titled with the site of card k.
C23_ErrorClearedBySuccess ==
    [][\A id \in RefreshIds :
          (Settles(id) /\ grid.kind = "error" /\ load'[id].payload # 0
              /\ WellFormed(Payloads[load'[id].payload])) =>
              LET sites == Payloads[load'[id].payload].sites
              IN  /\ load'[id].outcome = "rendered"
                  /\ grid'.kind = "cards"
                  /\ Len(grid'.cards) = Len(sites)
                  /\ Len(chartsGrid'.cards) = Len(sites)
                  /\ \A k \in DOMAIN sites :
                         /\ grid'.cards[k].name = sites[k].name
                         /\ grid'.cards[k].barId = k - 1
                         /\ chartsGrid'.cards[k].slot = k - 1
                         /\ chartsGrid'.cards[k].name = sites[k].name]_vars

\* C23 witness: the first refresh ended in the error panel; the refresh the
\* retry button started has rendered the two sites of its payload.
C23_Witness ==
    /\ load[1].outcome = "error"
    /\ load[2].trigger = "retry"
    /\ load[2].outcome = "rendered"
    /\ PayloadOf(2) = ObjectData(<<SiteWebsiteUp, SiteStreamingUp>>)
    /\ grid.kind = "cards"
    /\ grid.src = 2
    /\ Len(grid.cards) = 2
    /\ grid.cards[2].name = NameStreaming
    /\ chartsGrid.cards[2].name = NameStreaming

=============================================================================
